---- MODULE Spec2Model ----
(***************************************************************************)
(* A model of the eco-rating parser's AdvantageTracker                     *)
(* (parser/advantage_tracker.go) and of the rating composer               *)
(* (rating/rating.go), with the properties the specification states about  *)
(* them.                                                                   *)
(***************************************************************************)
EXTENDS Integers, Sequences, FiniteSets, TLC

VARIABLES
    at,      \* the AdvantageTracker: [tSlots, ctSlots]
    last,    \* the last tracker call: its name, arguments and return value
    killCalls,   \* history: RecordKill calls per ledger since construction/Reset
    dead,    \* history: <<player, ledger>> that died and has not killed since
    rin,     \* the rating composer's input (a PlayerStats and its per-side view)
    rout     \* the rating composer's results for rin

trackerVars == <<at, last, killCalls, dead>>
ratingVars == <<rin, rout>>
vars == <<at, last, killCalls, dead, rin, rout>>

----------------------------------------------------------------------------
(* Bounds of the model *)

\* RecordKill calls per ledger between two Resets
MaxKills == 3

----------------------------------------------------------------------------
(* parser/advantage_tracker.go *)

TeamTerrorists == "T"
TeamCounterTerrorists == "CT"

\* The sides kills and deaths are recorded for
Sides == {TeamTerrorists, TeamCounterTerrorists}

\* The values of common.Team that are not a team
TeamUnassigned == "Unassigned"
TeamSpectators == "Spectators"

\* Every value of common.Team
Teams == {TeamUnassigned, TeamSpectators, TeamTerrorists, TeamCounterTerrorists}

\* Player ids (uint64 in the source)
PlayerIDs == {1, 2, 3}

AdvantageSlot(playerID, side) == [PlayerID |-> playerID, Side |-> side]

NewAdvantageTracker == [tSlots |-> <<>>, ctSlots |-> <<>>]

\* The ledger a side is routed to
LedgerOf(side) == IF side = TeamTerrorists THEN "tSlots" ELSE "ctSlots"

Ledgers == {"tSlots", "ctSlots"}

getSlots(a, side) ==
    IF side = TeamTerrorists THEN a.tSlots ELSE a.ctSlots

setSlots(a, side, slots) ==
    IF side = TeamTerrorists
        THEN [a EXCEPT !.tSlots = slots]
        ELSE [a EXCEPT !.ctSlots = slots]

\* addSlot putting the new slot in front of the older ones
addSlotInFront(a, side, slot) ==
    IF side = TeamTerrorists
        THEN [a EXCEPT !.tSlots = <<slot>> \o a.tSlots]
        ELSE [a EXCEPT !.ctSlots = <<slot>> \o a.ctSlots]

\* addSlot testing for Counter-Terrorists and sending every other side to tSlots
addSlotUnlessCT(a, side, slot) ==
    IF side = TeamCounterTerrorists
        THEN [a EXCEPT !.ctSlots = Append(a.ctSlots, slot)]
        ELSE [a EXCEPT !.tSlots = Append(a.tSlots, slot)]

addSlot(a, side, slot) ==
    IF side = TeamTerrorists
        THEN [a EXCEPT !.tSlots = Append(a.tSlots, slot)]
        ELSE [a EXCEPT !.ctSlots = Append(a.ctSlots, slot)]

\* The loop of removePlayerSlots from index i on, filtered being what it kept
RECURSIVE filterLoop(_, _, _, _)
filterLoop(slots, i, playerID, filtered) ==
    IF i > Len(slots) THEN filtered
    ELSE filterLoop(slots, i + 1, playerID,
                    IF slots[i].PlayerID # playerID
                        THEN Append(filtered, slots[i])
                        ELSE filtered)

\* removePlayerSlots stopping at the player's first slot
removePlayerSlotsFirstOnly(a, playerID, side) ==
    LET slots == getSlots(a, side)
        hits == {i \in 1..Len(slots) : slots[i].PlayerID = playerID}
        first == IF hits = {} THEN 0 ELSE CHOOSE i \in hits : \A j \in hits : i <= j
    IN  setSlots(a, side,
                 [k \in 1..(Len(slots) - (IF first = 0 THEN 0 ELSE 1)) |->
                     IF first = 0 \/ k < first THEN slots[k] ELSE slots[k + 1]])

\* removePlayerSlots filtering the ledgers of both sides
removePlayerSlotsBothSides(a, playerID, side) ==
    [tSlots |-> filterLoop(a.tSlots, 1, playerID, <<>>),
     ctSlots |-> filterLoop(a.ctSlots, 1, playerID, <<>>)]

removePlayerSlots(a, playerID, side) ==
    setSlots(a, side, filterLoop(getSlots(a, side), 1, playerID, <<>>))

\* The loop of RecordKill over the slots from index i on
RECURSIVE collectLoop(_, _, _, _, _)
collectLoop(slots, i, killerID, survivalBeneficiaries, seen) ==
    IF i > Len(slots) THEN survivalBeneficiaries
    ELSE IF slots[i].PlayerID # killerID /\ slots[i].PlayerID \notin seen
        THEN collectLoop(slots, i + 1, killerID,
                         Append(survivalBeneficiaries, slots[i].PlayerID),
                         seen \cup {slots[i].PlayerID})
        ELSE collectLoop(slots, i + 1, killerID, survivalBeneficiaries, seen)

\* RecordKill's collection without the test slot.PlayerID != killerID
survivalBeneficiariesWithKiller(a, killerID, killerSide) ==
    collectLoop(getSlots(a, killerSide), 1, 0, <<>>, {})

\* RecordKill's collection without the seen map
survivalBeneficiariesUnseen(a, killerID, killerSide) ==
    LET others == SelectSeq(getSlots(a, killerSide),
                            LAMBDA slot : slot.PlayerID # killerID)
    IN  [i \in DOMAIN others |-> others[i].PlayerID]

\* What RecordKill returns: collected before the new slot is added
survivalBeneficiariesOf(a, killerID, killerSide) ==
    collectLoop(getSlots(a, killerSide), 1, killerID, <<>>, {})

\* RecordKill calling addSlot twice
RecordKillSlotsTwice(a, killerID, killerSide) ==
    addSlot(addSlot(a, killerSide, AdvantageSlot(killerID, killerSide)),
            killerSide, AdvantageSlot(killerID, killerSide))

\* RecordKill without the call of addSlot
RecordKillSlotsNoSlot(a, killerID, killerSide) == a

\* The tracker after RecordKill
RecordKillSlots(a, killerID, killerSide) ==
    addSlot(a, killerSide, AdvantageSlot(killerID, killerSide))

\* RecordDeath without the removal of the oldest slot
RecordDeathSlotsOwnOnly(a, victimID, victimSide) ==
    removePlayerSlots(a, victimID, victimSide)

\* RecordDeath without the removal of the victim's slots
RecordDeathSlotsHeadOnly(a, victimID, victimSide) ==
    LET slots == getSlots(a, victimSide)
    IN  IF Len(slots) > 0 THEN setSlots(a, victimSide, Tail(slots)) ELSE a

\* RecordDeath consuming the oldest slot of the other side's ledger
RecordDeathSlotsOpposing(a, victimID, victimSide) ==
    LET other == IF victimSide = TeamTerrorists
                     THEN TeamCounterTerrorists ELSE TeamTerrorists
        slots == getSlots(a, other)
        a1 == IF Len(slots) > 0 THEN setSlots(a, other, Tail(slots)) ELSE a
    IN  removePlayerSlots(a1, victimID, victimSide)

\* RecordDeath removing the victim's slots first and the oldest slot after
RecordDeathSlotsFilterFirst(a, victimID, victimSide) ==
    LET a1 == removePlayerSlots(a, victimID, victimSide)
        slots == getSlots(a1, victimSide)
    IN  IF Len(slots) > 0 THEN setSlots(a1, victimSide, Tail(slots)) ELSE a1

\* The tracker after RecordDeath
RecordDeathSlots(a, victimID, victimSide) ==
    LET slots == getSlots(a, victimSide)
        a1 == IF Len(slots) > 0 THEN setSlots(a, victimSide, Tail(slots)) ELSE a
    IN  removePlayerSlots(a1, victimID, victimSide)

\* Reset clearing the T ledger only
ResetSlotsTOnly == [tSlots |-> <<>>, ctSlots |-> at.ctSlots]

\* The tracker after Reset
ResetSlots == [tSlots |-> <<>>, ctSlots |-> <<>>]

----------------------------------------------------------------------------
(* float64 arithmetic of rating/rating.go                                   *)
(*                                                                          *)
(* A float64 is modelled as a fixed-point number, an integer count of       *)
(* thousandths (1.0 is Scale), or as NaN.  Results are rounded to the       *)
(* nearest thousandth.  NaN propagates through the arithmetic, through      *)
(* math.Max and math.Min, and every comparison with NaN is false, as in Go. *)

Scale == 10 * 100

NaN == 0 - 2147483647

IsNaN(x) == x = NaN

\* float64(n) of an int n
Float(n) == n * Scale

\* n / d rounded to the nearest integer, d > 0
RoundDiv(n, d) == (n + d \div 2) \div d

FAdd(x, y) == IF IsNaN(x) \/ IsNaN(y) THEN NaN ELSE x + y

FSub(x, y) == IF IsNaN(x) \/ IsNaN(y) THEN NaN ELSE x - y

FMul(x, y) == IF IsNaN(x) \/ IsNaN(y) THEN NaN ELSE RoundDiv(x * y, Scale)

\* x / y for y # 0 (the source divides by non-zero values only)
FDiv(x, y) ==
    IF IsNaN(x) \/ IsNaN(y) THEN NaN
    ELSE IF y > 0 THEN RoundDiv(x * Scale, y)
    ELSE RoundDiv((0 - x) * Scale, 0 - y)

FNeg(x) == IF IsNaN(x) THEN NaN ELSE 0 - x

FGe(x, y) == ~IsNaN(x) /\ ~IsNaN(y) /\ x >= y

FGt(x, y) == ~IsNaN(x) /\ ~IsNaN(y) /\ x > y

FLe(x, y) == ~IsNaN(x) /\ ~IsNaN(y) /\ x <= y

FLt(x, y) == ~IsNaN(x) /\ ~IsNaN(y) /\ x < y

\* math.Max and math.Min return NaN when an argument is NaN
MathMax(x, y) == IF IsNaN(x) \/ IsNaN(y) THEN NaN ELSE IF x >= y THEN x ELSE y

MathMin(x, y) == IF IsNaN(x) \/ IsNaN(y) THEN NaN ELSE IF x <= y THEN x ELSE y

\* x^n for an integer n >= 0, by repeated multiplication
RECURSIVE IntPow(_, _)
IntPow(x, n) == IF n = 0 THEN Scale ELSE FMul(IntPow(x, n - 1), x)

\* The largest r in lo..hi-1 with r^q <= x, given lo^q <= x < hi^q
RECURSIVE RootSearch(_, _, _, _)
RootSearch(x, q, lo, hi) ==
    IF hi - lo <= 1 THEN lo
    ELSE LET mid == (lo + hi) \div 2
         IN  IF IntPow(mid, q) <= x
                 THEN RootSearch(x, q, mid, hi)
                 ELSE RootSearch(x, q, lo, mid)

\* The q-th root of x >= 0; roots above 4.0 are not needed by the model
Root(x, q) ==
    RootSearch(x, q, 0, IF x < Scale THEN Scale + 1
                        ELSE IF x + 1 < 4 * Scale + 1 THEN x + 1
                        ELSE 4 * Scale + 1)

\* math.Pow(x, y) for the exponents y the source uses, given as the fraction
\* num/den in lowest terms (0.9 = 9/10, 1.2 = 6/5, 2 = 2/1): NaN for NaN and
\* for a negative x with a non-integer exponent, x^(1/den) raised to num
\* otherwise
MathPow(x, num, den) ==
    IF IsNaN(x) THEN NaN
    ELSE IF den = 1 THEN IntPow(x, num)
    ELSE IF x < 0 THEN NaN
    ELSE IntPow(Root(x, den), num)

----------------------------------------------------------------------------
(* rating/rating.go: constants *)

BaselineKPR == 720
BaselineDPR == 680
BaselineADR == 77000
BaselineKAST == 720

MinRating == 200
MaxRating == 3000

\* The weights of ComputeFinalRating's components.  Their declarations are not
\* among the source files; the values are the percentages the comment above
\* each component gives.
WeightKillRating == 280
WeightDeathRating == 160
WeightADRRating == 180
WeightSwingRating == 100
WeightMultiKillRating == 100
WeightKASTRating == 60
WeightOpeningRating == 60
WeightTradeRating == 40
WeightUtilityRating == 20

\* "Normalize against baseline (50% success rate)"
BaselineOpeningSuccessRate == 500

\* The baselines rating.go uses without their declarations being among the
\* source files: the composer is modelled for each of these settings.
BaselineChoices ==
    { [BaselineMultiKill |-> 200, BaselineTradeKillsPerRound |-> 500,
       BaselineUtilityDamage |-> 5000, BaselineFlashAssists |-> 500,
       BaselineEnemyFlashDur |-> 1000],
      [BaselineMultiKill |-> 1500, BaselineTradeKillsPerRound |-> 150,
       BaselineUtilityDamage |-> 8000, BaselineFlashAssists |-> 100,
       BaselineEnemyFlashDur |-> 3000] }

----------------------------------------------------------------------------
(* rating/rating.go: ComputeFinalRating *)

\* sumMulti's loop for i = 2..5 over the [6]int m (m[i] is m[i + 1] here)
RECURSIVE sumMultiLoop(_, _, _, _)
sumMultiLoop(m, weights, i, total) ==
    IF i > 5 THEN total
    ELSE sumMultiLoop(m, weights, i + 1, total + m[i + 1] * weights[i + 1])

sumMulti(m) == sumMultiLoop(m, <<0, 0, 1, 3, 7, 15>>, 2, 0)

\* math.Max(lo, math.Min(hi, x))
Clamp(lo, hi, x) == MathMax(lo, MathMin(hi, x))

FinalKillRating(p) ==
    LET rounds == Float(p.RoundsPlayed)
        ecoKPR == FDiv(p.EcoKillValue, rounds)
        killRatio == FDiv(ecoKPR, BaselineKPR)
    IN  IF FGe(killRatio, 1500)
            THEN FAdd(1000, FMul(FSub(killRatio, 1000), 1300))
        ELSE IF FGe(killRatio, 1200)
            THEN FAdd(1000, FMul(FSub(killRatio, 1000), 700))
        ELSE IF FGe(killRatio, 800)
            THEN MathPow(killRatio, 9, 10)
        ELSE MathPow(killRatio, 11, 10)

FinalDeathRating(p) ==
    LET rounds == Float(p.RoundsPlayed)
        dpr == FDiv(Float(p.Deaths), rounds)
        deathRatio == FDiv(dpr, BaselineDPR)
        deathRating ==
            IF FLe(deathRatio, 500) THEN FSub(2000, FMul(deathRatio, 200))
            ELSE IF FLe(deathRatio, 800) THEN FSub(1700, FMul(deathRatio, 400))
            ELSE IF FLe(deathRatio, 1000) THEN FSub(1400, FMul(deathRatio, 300))
            ELSE IF FLe(deathRatio, 1300) THEN FDiv(1000, MathPow(deathRatio, 1, 1))
            ELSE FDiv(1000, MathPow(deathRatio, 6, 5))
    IN  Clamp(300, 1900, deathRating)

FinalADRRating(p) ==
    LET rounds == Float(p.RoundsPlayed)
        adr == FDiv(Float(p.Damage), rounds)
        adrRatio == FDiv(adr, BaselineADR)
    IN  IF FGe(adrRatio, 1400) THEN FAdd(800, FMul(adrRatio, 600))
        ELSE IF FGe(adrRatio, 1000) THEN FAdd(700, FMul(adrRatio, 500))
        ELSE IF FGe(adrRatio, 800) THEN FAdd(400, FMul(adrRatio, 600))
        ELSE FAdd(300, FMul(adrRatio, 500))

FinalSwingRating(p) ==
    LET rounds == Float(p.RoundsPlayed)
        avgSwing == FDiv(p.RoundSwing, rounds)
        swingRating ==
            IF FGe(avgSwing, 50) THEN FAdd(1000, FMul(FDiv(avgSwing, 150), 400))
            ELSE IF FGe(avgSwing, 0) THEN FAdd(1000, FMul(FDiv(avgSwing, 100), 200))
            ELSE FAdd(1000, FMul(FDiv(avgSwing, 100), 300))
    IN  Clamp(600, 1400, swingRating)

FinalMultiKillRating(p) ==
    LET rounds == Float(p.RoundsPlayed)
        ecoKPR == FDiv(p.EcoKillValue, rounds)
        adr == FDiv(Float(p.Damage), rounds)
        multiKillBonus == FDiv(Float(sumMulti(p.MultiKills)), rounds)
        multiKillRating ==
            MathMin(MathPow(FDiv(multiKillBonus, p.base.BaselineMultiKill), 4, 5), 2000)
        overallPerformance ==
            FDiv(FAdd(FAdd(FDiv(ecoKPR, BaselineKPR), FDiv(adr, BaselineADR)),
                      FDiv(p.KAST, BaselineKAST)), 3000)
        penaltyFactor == MathPow(MathMin(1000, overallPerformance), 2, 1)
    IN  IF FGt(multiKillRating, 1000)
            THEN FAdd(1000, FMul(FSub(multiKillRating, 1000), penaltyFactor))
            ELSE multiKillRating

FinalKASTRating(p) ==
    LET kastRatio == FDiv(p.KAST, BaselineKAST)
    IN  IF FGe(kastRatio, 1200) THEN FAdd(1000, FMul(FSub(kastRatio, 1000), 600))
        ELSE IF FGe(kastRatio, 900) THEN kastRatio
        ELSE MathPow(kastRatio, 6, 5)

FinalOpeningRating(p) ==
    IF p.OpeningAttempts > 0
        THEN LET successRate == FDiv(Float(p.OpeningSuccesses), Float(p.OpeningAttempts))
                 successRatio == FDiv(successRate, BaselineOpeningSuccessRate)
                 winConversion ==
                     IF p.OpeningSuccesses > 0
                         THEN FDiv(Float(p.RoundsWonAfterOpening), Float(p.OpeningSuccesses))
                         ELSE 0
             IN  Clamp(500, 1600, FAdd(FMul(successRatio, 700), FMul(winConversion, 600)))
        ELSE 1000

FinalTradeRating(p) ==
    LET rounds == Float(p.RoundsPlayed)
        tradeKillsPerRound == FDiv(Float(p.TradeKills), rounds)
        tradeKillRatio == FDiv(tradeKillsPerRound, p.base.BaselineTradeKillsPerRound)
        t1 == FAdd(1000, FMul(FSub(tradeKillRatio, 1000), 300))
        t2 == IF p.Deaths > 0
                  THEN FAdd(t1, FMul(FDiv(Float(p.TradedDeaths), Float(p.Deaths)), 200))
                  ELSE t1
        savesPerRound == FDiv(Float(p.SavedTeammate), rounds)
        t3 == FAdd(t2, FMul(savesPerRound, 1500))
    IN  Clamp(600, 1500, t3)

FinalUtilityRating(p) ==
    LET rounds == Float(p.RoundsPlayed)
        utilDmgPerRound == FDiv(Float(p.UtilityDamage), rounds)
        utilDmgRatio == FDiv(utilDmgPerRound, p.base.BaselineUtilityDamage)
        flashAssistsPerRound == FDiv(Float(p.FlashAssists), rounds)
        flashAssistRatio == FDiv(flashAssistsPerRound, p.base.BaselineFlashAssists)
        enemyFlashPerRound == FDiv(p.EnemyFlashDuration, rounds)
        enemyFlashRatio == FDiv(enemyFlashPerRound, p.base.BaselineEnemyFlashDur)
        utilityScore == FAdd(FAdd(FMul(utilDmgRatio, 400), FMul(flashAssistRatio, 300)),
                             FMul(enemyFlashRatio, 300))
    IN  Clamp(500, 1400, FAdd(700, FMul(utilityScore, 300)))

FinalClutchModifier(p) ==
    IF p.ClutchRounds > 0
        THEN LET clutchWinRate == FDiv(Float(p.ClutchWins), Float(p.ClutchRounds))
             IN  IF FLt(clutchWinRate, 300)
                     THEN FMul(FMul(FNeg(Float(p.ClutchRounds)), FSub(300, clutchWinRate)), 40)
                     ELSE FMul(Float(p.ClutchWins), 15)
        ELSE 0

FinalAWPPenalty(p) ==
    IF p.AWPDeathsNoKill > 0
        THEN FMul(FDiv(Float(p.AWPDeathsNoKill), Float(p.RoundsPlayed)), 120)
        ELSE 0

\* "Combine Components": the weighted sum before the clamp
FinalCombine(c) ==
    FSub(FAdd(FAdd(FAdd(FAdd(FAdd(FAdd(FAdd(FAdd(FAdd(
        FMul(c.killRating, WeightKillRating),
        FMul(c.deathRating, WeightDeathRating)),
        FMul(c.adrRating, WeightADRRating)),
        FMul(c.swingRating, WeightSwingRating)),
        FMul(c.multiKillRating, WeightMultiKillRating)),
        FMul(c.kastRating, WeightKASTRating)),
        FMul(c.openingRating, WeightOpeningRating)),
        FMul(c.tradeRating, WeightTradeRating)),
        FMul(c.utilityRating, WeightUtilityRating)),
        c.clutchModifier),
        c.awpPenalty)

\* return math.Max(MinRating, math.Min(MaxRating, rating))
FinalReturn(rating) == MathMax(MinRating, MathMin(MaxRating, rating))

\* The components a call that returns early never computes
NoComponents ==
    [killRating |-> 0, deathRating |-> 0, adrRating |-> 0, swingRating |-> 0,
     multiKillRating |-> 0, kastRating |-> 0, openingRating |-> 0,
     tradeRating |-> 0, utilityRating |-> 0, clutchModifier |-> 0,
     awpPenalty |-> 0]

\* The contributions a call that returns early never computes
NoContribs ==
    [kprContrib |-> 0, dprContrib |-> 0, adrContrib |-> 0, kastContrib |-> 0,
     swingContrib |-> 0, impactContrib |-> 0, multiContrib |-> 0]

FinalComponents(p) ==
    [killRating |-> FinalKillRating(p), deathRating |-> FinalDeathRating(p),
     adrRating |-> FinalADRRating(p), swingRating |-> FinalSwingRating(p),
     multiKillRating |-> FinalMultiKillRating(p), kastRating |-> FinalKASTRating(p),
     openingRating |-> FinalOpeningRating(p), tradeRating |-> FinalTradeRating(p),
     utilityRating |-> FinalUtilityRating(p), clutchModifier |-> FinalClutchModifier(p),
     awpPenalty |-> FinalAWPPenalty(p)]

\* ComputeFinalRating without the test for zero rounds: the division by
\* rounds then yields no number
ComputeFinalRatingUnguarded(p) ==
    IF Float(p.RoundsPlayed) = 0
        THEN [early |-> FALSE, rating |-> NaN, c |-> NoComponents, l |-> NoContribs]
        ELSE [early |-> FALSE, rating |-> FinalReturn(FinalCombine(FinalComponents(p))),
              c |-> FinalComponents(p), l |-> NoContribs]

\* ComputeFinalRating(p): what it returns, whether it returned at the test for
\* zero rounds, and the components it computed
ComputeFinalRating(p) ==
    IF Float(p.RoundsPlayed) = 0
        THEN [early |-> TRUE, rating |-> 0, c |-> NoComponents, l |-> NoContribs]
        ELSE [early |-> FALSE, rating |-> FinalReturn(FinalCombine(FinalComponents(p))),
              c |-> FinalComponents(p), l |-> NoContribs]

----------------------------------------------------------------------------
(* rating/rating.go: ComputeSideRating.  base holds the baselines declared   *)
(* outside the source files.                                                 *)

SideKillRating(rounds, ecoKillValue) ==
    LET roundsF == Float(rounds)
        ecoKPR == FDiv(ecoKillValue, roundsF)
        killRatio == FDiv(ecoKPR, BaselineKPR)
    IN  IF FGe(killRatio, 1500)
            THEN FAdd(1000, FMul(FSub(killRatio, 1000), 1300))
        ELSE IF FGe(killRatio, 1200)
            THEN FAdd(1000, FMul(FSub(killRatio, 1000), 700))
        ELSE IF FGe(killRatio, 800)
            THEN MathPow(killRatio, 9, 10)
        ELSE MathPow(killRatio, 11, 10)

SideDeathRating(rounds, deaths) ==
    LET roundsF == Float(rounds)
        dpr == FDiv(Float(deaths), roundsF)
        deathRatio == FDiv(dpr, BaselineDPR)
        deathRating ==
            IF FLe(deathRatio, 500) THEN FSub(2000, FMul(deathRatio, 200))
            ELSE IF FLe(deathRatio, 800) THEN FSub(1700, FMul(deathRatio, 400))
            ELSE IF FLe(deathRatio, 1000) THEN FSub(1400, FMul(deathRatio, 300))
            ELSE IF FLe(deathRatio, 1300) THEN FDiv(1000, MathPow(deathRatio, 1, 1))
            ELSE FDiv(1000, MathPow(deathRatio, 6, 5))
    IN  MathMax(300, MathMin(1900, deathRating))

SideADRRating(rounds, damage) ==
    LET roundsF == Float(rounds)
        adr == FDiv(Float(damage), roundsF)
        adrRatio == FDiv(adr, BaselineADR)
    IN  IF FGe(adrRatio, 1400) THEN FAdd(800, FMul(adrRatio, 600))
        ELSE IF FGe(adrRatio, 1000) THEN FAdd(700, FMul(adrRatio, 500))
        ELSE IF FGe(adrRatio, 800) THEN FAdd(400, FMul(adrRatio, 600))
        ELSE FAdd(300, FMul(adrRatio, 500))

SideSwingRating(rounds, roundSwing) ==
    LET roundsF == Float(rounds)
        avgSwing == FDiv(roundSwing, roundsF)
        swingRating ==
            IF FGe(avgSwing, 50) THEN FAdd(1000, FMul(FDiv(avgSwing, 150), 400))
            ELSE IF FGe(avgSwing, 0) THEN FAdd(1000, FMul(FDiv(avgSwing, 100), 200))
            ELSE FAdd(1000, FMul(FDiv(avgSwing, 100), 300))
    IN  MathMax(600, MathMin(1400, swingRating))

SideMultiKillRating(rounds, damage, ecoKillValue, kast, multiKills, base) ==
    LET roundsF == Float(rounds)
        ecoKPR == FDiv(ecoKillValue, roundsF)
        adr == FDiv(Float(damage), roundsF)
        multiKillBonus == FDiv(Float(sumMulti(multiKills)), roundsF)
        multiKillRating ==
            MathMin(MathPow(FDiv(multiKillBonus, base.BaselineMultiKill), 4, 5), 2000)
        kastPct == FDiv(kast, roundsF)
        overallPerformance ==
            FDiv(FAdd(FAdd(FDiv(ecoKPR, BaselineKPR), FDiv(adr, BaselineADR)),
                      FDiv(kastPct, BaselineKAST)), 3000)
        penaltyFactor == MathPow(MathMin(1000, overallPerformance), 2, 1)
    IN  IF FGt(multiKillRating, 1000)
            THEN FAdd(1000, FMul(FSub(multiKillRating, 1000), penaltyFactor))
            ELSE multiKillRating

\* The KAST rating reading kast as a fraction, not as a count of rounds
SideKASTRatingOfFraction(rounds, kast) ==
    LET kastRatio == FDiv(kast, BaselineKAST)
    IN  IF FGe(kastRatio, 1200) THEN FAdd(1000, FMul(FSub(kastRatio, 1000), 600))
        ELSE IF FGe(kastRatio, 900) THEN kastRatio
        ELSE MathPow(kastRatio, 6, 5)

SideKASTRating(rounds, kast) ==
    LET roundsF == Float(rounds)
        kastPct == FDiv(kast, roundsF)
        kastRatio == FDiv(kastPct, BaselineKAST)
    IN  IF FGe(kastRatio, 1200) THEN FAdd(1000, FMul(FSub(kastRatio, 1000), 600))
        ELSE IF FGe(kastRatio, 900) THEN kastRatio
        ELSE MathPow(kastRatio, 6, 5)

SideClutchModifier(clutchRounds, clutchWins) ==
    IF clutchRounds > 0
        THEN LET clutchWinRate == FDiv(Float(clutchWins), Float(clutchRounds))
             IN  IF FLt(clutchWinRate, 300)
                     THEN FMul(FMul(FNeg(Float(clutchRounds)), FSub(300, clutchWinRate)), 40)
                     ELSE FMul(Float(clutchWins), 15)
        ELSE 0

\* "Per-side uses adjusted weights": Kill 32%, Death 18%, ADR 20%, Swing 12%,
\* Multi 12%, KAST 6%
SideCombine(c) ==
    FAdd(FAdd(FAdd(FAdd(FAdd(FAdd(
        FMul(c.killRating, 320),
        FMul(c.deathRating, 180)),
        FMul(c.adrRating, 200)),
        FMul(c.swingRating, 120)),
        FMul(c.multiKillRating, 120)),
        FMul(c.kastRating, 60)),
        c.clutchModifier)

\* return math.Max(MinRating, math.Min(MaxRating, rating))
SideReturn(rating) == MathMax(MinRating, MathMin(MaxRating, rating))

SideComponents(rounds, deaths, damage, ecoKillValue, roundSwing, kast, multiKills, clutchRounds, clutchWins, base) ==
    [killRating |-> SideKillRating(rounds, ecoKillValue),
     deathRating |-> SideDeathRating(rounds, deaths),
     adrRating |-> SideADRRating(rounds, damage),
     swingRating |-> SideSwingRating(rounds, roundSwing),
     multiKillRating |->
         SideMultiKillRating(rounds, damage, ecoKillValue, kast, multiKills, base),
     kastRating |-> SideKASTRating(rounds, kast),
     openingRating |-> 0, tradeRating |-> 0, utilityRating |-> 0,
     clutchModifier |-> SideClutchModifier(clutchRounds, clutchWins),
     awpPenalty |-> 0]

\* ComputeSideRating(rounds, kills, ..., clutchWins); kills is not read
ComputeSideRating(rounds, kills, deaths, damage, ecoKillValue, roundSwing, kast, multiKills, clutchRounds, clutchWins, base) ==
    IF Float(rounds) = 0
        THEN [early |-> TRUE, rating |-> 0, c |-> NoComponents, l |-> NoContribs]
        ELSE LET c == SideComponents(rounds, deaths, damage, ecoKillValue, roundSwing,
                                     kast, multiKills, clutchRounds, clutchWins, base)
             IN  [early |-> FALSE, rating |-> SideReturn(SideCombine(c)), c |-> c,
                  l |-> NoContribs]

----------------------------------------------------------------------------
(* The linear variant of the composer (the source file of unknown name that  *)
(* defines ComputeFinalRating and ComputeSideRating a second time)           *)

RECURSIVE linearSumMultiLoop(_, _, _, _)
linearSumMultiLoop(m, weights, i, total) ==
    IF i > 5 THEN total
    ELSE linearSumMultiLoop(m, weights, i + 1, total + m[i + 1] * weights[i + 1])

linearSumMulti(m) == linearSumMultiLoop(m, <<0, 0, 2, 6, 14, 30>>, 2, 0)

LinearFinalContribs(p) ==
    LET rounds == Float(p.RoundsPlayed)
        kpr == FDiv(Float(p.Kills), rounds)
        dpr == FDiv(Float(p.Deaths), rounds)
        adr == FDiv(Float(p.Damage), rounds)
        kast == p.KAST
        avgSwing == FDiv(p.RoundSwing, rounds)
        openingKillsPerRound == FDiv(Float(p.OpeningKills), rounds)
        multiKillRoundsPerRound == FDiv(Float(p.RoundsWithMultiKill), rounds)
        multiKillBonus == FDiv(Float(linearSumMulti(p.MultiKillsRaw)), rounds)
    IN  [kprContrib |-> IF FGe(kpr, 700) THEN FMul(FSub(kpr, 700), 750)
                        ELSE FMul(FSub(kpr, 700), 550),
         dprContrib |-> IF FLe(dpr, 700) THEN FMul(FSub(700, dpr), 150)
                        ELSE FMul(FSub(700, dpr), 550),
         adrContrib |-> IF FGe(adr, 75000) THEN FMul(FSub(adr, 75000), 15)
                        ELSE FMul(FSub(adr, 75000), 4),
         kastContrib |-> IF FGe(kast, 700) THEN FMul(FSub(kast, 700), 200)
                         ELSE FMul(FSub(kast, 700), 350),
         swingContrib |-> IF FGe(avgSwing, 0) THEN FMul(avgSwing, 750)
                          ELSE FMul(avgSwing, 1000),
         impactContrib |-> FAdd(FMul(openingKillsPerRound, 300),
                                FMul(multiKillRoundsPerRound, 150)),
         multiContrib |-> FMul(multiKillBonus, 15)]

LinearComputeFinalRating(p) ==
    IF Float(p.RoundsPlayed) = 0
        THEN [early |-> TRUE, rating |-> 0, c |-> NoComponents, l |-> NoContribs]
        ELSE LET l == LinearFinalContribs(p)
                 rating == FAdd(FAdd(FAdd(FAdd(FAdd(FAdd(FAdd(1000,
                               l.kprContrib), l.dprContrib), l.adrContrib),
                               l.kastContrib), l.swingContrib), l.impactContrib),
                               l.multiContrib)
             IN  [early |-> FALSE,
                  rating |-> MathMax(MinRating, MathMin(MaxRating, rating)),
                  c |-> NoComponents, l |-> l]

LinearSideContribs(rounds, kills, deaths, damage, roundSwing, kast, multiKills) ==
    LET roundsF == Float(rounds)
        kpr == FDiv(Float(kills), roundsF)
        dpr == FDiv(Float(deaths), roundsF)
        adr == FDiv(Float(damage), roundsF)
        kastPct == FDiv(kast, roundsF)
        avgSwing == FDiv(roundSwing, roundsF)
        multiKillBonus == FDiv(Float(linearSumMulti(multiKills)), roundsF)
    IN  [kprContrib |-> IF FGe(kpr, 700) THEN FMul(FSub(kpr, 700), 750)
                        ELSE FMul(FSub(kpr, 700), 550),
         dprContrib |-> IF FLe(dpr, 700) THEN FMul(FSub(700, dpr), 150)
                        ELSE FMul(FSub(700, dpr), 550),
         adrContrib |-> IF FGe(adr, 75000) THEN FMul(FSub(adr, 75000), 15)
                        ELSE FMul(FSub(adr, 75000), 4),
         kastContrib |-> IF FGe(kastPct, 700) THEN FMul(FSub(kastPct, 700), 200)
                         ELSE FMul(FSub(kastPct, 700), 350),
         swingContrib |-> IF FGe(avgSwing, 0) THEN FMul(avgSwing, 750)
                          ELSE FMul(avgSwing, 1000),
         impactContrib |-> 0,
         multiContrib |-> FMul(multiKillBonus, 15)]

LinearComputeSideRating(rounds, kills, deaths, damage, ecoKillValue, roundSwing, kast, multiKills, clutchRounds, clutchWins) ==
    IF Float(rounds) = 0
        THEN [early |-> TRUE, rating |-> 0, c |-> NoComponents, l |-> NoContribs]
        ELSE LET l == LinearSideContribs(rounds, kills, deaths, damage, roundSwing,
                                         kast, multiKills)
                 rating == FAdd(FAdd(FAdd(FAdd(FAdd(FAdd(1000,
                               l.kprContrib), l.dprContrib), l.adrContrib),
                               l.kastContrib), l.swingContrib), l.multiContrib)
             IN  [early |-> FALSE,
                  rating |-> MathMax(MinRating, MathMin(MaxRating, rating)),
                  c |-> NoComponents, l |-> l]

----------------------------------------------------------------------------
(* computeDerivedStats, as the README gives it: a rate is computed only   *)
(* for a player with RoundsPlayed > 0, and is left as it was otherwise     *)

computeDerivedStats(p, rates) ==
    IF p.RoundsPlayed > 0
        THEN LET rounds == Float(p.RoundsPlayed)
             IN  [ADR |-> FDiv(Float(p.Damage), rounds),
                  KPR |-> FDiv(Float(p.Kills), rounds),
                  DPR |-> FDiv(Float(p.Deaths), rounds)]
        ELSE rates

\* The rate fields of a PlayerStats nothing has been stored in
ZeroRates == [ADR |-> 0, KPR |-> 0, DPR |-> 0]

----------------------------------------------------------------------------
(* rating/rating.go: economic kill value and death penalty multipliers *)

EcoKillPistolVsRifle == 1800
EcoKillEcoVsForce == 1500
EcoKillForceVsFullBuy == 1250
EcoKillSlightDisadvantage == 1100
EcoKillEqual == 1000
EcoKillSlightAdvantage == 950
EcoKillAdvantage == 850
EcoKillRifleVsPistol == 700

EcoDeathToPistol == 1600
EcoDeathToEco == 1400
EcoDeathToForceBuy == 1200
EcoDeathSlightAdvantage == 1100
EcoDeathEqual == 1000
EcoDeathSlightDisadvantage == 950
EcoDeathDisadvantage == 850
EcoDeathPistolVsRifle == 700

\* The kill table with two neighbouring tiers exchanged
EcoKillTiersSwapped ==
    <<EcoKillPistolVsRifle, EcoKillEcoVsForce, EcoKillForceVsFullBuy,
      EcoKillSlightDisadvantage, EcoKillSlightAdvantage, EcoKillEqual,
      EcoKillAdvantage, EcoKillRifleVsPistol>>

\* The kill multipliers as declared, from the killer's equipment being far
\* cheaper than the victim's (tier 1) to far more expensive (tier 8)
EcoKillTiers ==
    <<EcoKillPistolVsRifle, EcoKillEcoVsForce, EcoKillForceVsFullBuy,
      EcoKillSlightDisadvantage, EcoKillEqual, EcoKillSlightAdvantage,
      EcoKillAdvantage, EcoKillRifleVsPistol>>

\* The death multipliers as declared, from the killer's equipment being far
\* cheaper than the victim's (tier 1) to far more expensive (tier 8)
EcoDeathTiers ==
    <<EcoDeathToPistol, EcoDeathToEco, EcoDeathToForceBuy,
      EcoDeathSlightAdvantage, EcoDeathEqual, EcoDeathSlightDisadvantage,
      EcoDeathDisadvantage, EcoDeathPistolVsRifle>>

\* The tier of equal equipment
EqualTier == CHOOSE i \in DOMAIN EcoKillTiers : EcoKillTiers[i] = EcoKillEqual

----------------------------------------------------------------------------
(* The statistics of one player when all rounds are folded, and the calls  *)
(* that finalise them                                                      *)

MaxRounds == 2

\* Kills and Deaths
KillDeathProfiles == { <<0, 0>>, <<1, 1>>, <<2, 3>> }

DamageValues == {0, 150, 1500}

\* EcoKillValue is a float64
EcoKillValues == {0 - 720, 0, 1440, 6000}

\* RoundSwing is a float64
RoundSwingValues == {0 - 1000, 300}

\* KAST is a float64, the fraction of rounds with a kill, assist, survival or trade
KASTValues == {0, 500, 1000}

\* MultiKills is a [6]int
MultiKillProfiles == { <<0, 0, 0, 0, 0, 0>>, <<0, 0, 1, 0, 0, 2>> }

\* ClutchRounds and ClutchWins
ClutchProfiles == { <<0, 0>>, <<2, 0>>, <<2, 1>> }

\* The fields of the opening, trade, utility and AWP components
AuxProfiles ==
    { [OpeningAttempts |-> 0, OpeningSuccesses |-> 0, RoundsWonAfterOpening |-> 0,
       OpeningKills |-> 0, RoundsWithMultiKill |-> 0,
       TradeKills |-> 0, TradedDeaths |-> 0, SavedTeammate |-> 0,
       UtilityDamage |-> 0, FlashAssists |-> 0, EnemyFlashDuration |-> 0,
       AWPDeathsNoKill |-> 0],
      [OpeningAttempts |-> 0, OpeningSuccesses |-> 0, RoundsWonAfterOpening |-> 0,
       OpeningKills |-> 0, RoundsWithMultiKill |-> 0,
       TradeKills |-> 1, TradedDeaths |-> 0, SavedTeammate |-> 0,
       UtilityDamage |-> 10, FlashAssists |-> 1, EnemyFlashDuration |-> 2000,
       AWPDeathsNoKill |-> 0],
      [OpeningAttempts |-> 2, OpeningSuccesses |-> 1, RoundsWonAfterOpening |-> 1,
       OpeningKills |-> 1, RoundsWithMultiKill |-> 1,
       TradeKills |-> 2, TradedDeaths |-> 1, SavedTeammate |-> 1,
       UtilityDamage |-> 40, FlashAssists |-> 2, EnemyFlashDuration |-> 5000,
       AWPDeathsNoKill |-> 1] }

\* A model.PlayerStats, with the baselines the composer reads it against
PlayerStats(rounds, kd, damage, ecoKillValue, roundSwing, kast, multiKills, clutch, aux, base) ==
    [RoundsPlayed |-> rounds, Kills |-> kd[1], Deaths |-> kd[2],
     Damage |-> damage, EcoKillValue |-> ecoKillValue, RoundSwing |-> roundSwing,
     KAST |-> kast, MultiKills |-> multiKills, MultiKillsRaw |-> multiKills,
     ClutchRounds |-> clutch[1], ClutchWins |-> clutch[2],
     OpeningAttempts |-> aux.OpeningAttempts,
     OpeningSuccesses |-> aux.OpeningSuccesses,
     RoundsWonAfterOpening |-> aux.RoundsWonAfterOpening,
     OpeningKills |-> aux.OpeningKills,
     RoundsWithMultiKill |-> aux.RoundsWithMultiKill,
     TradeKills |-> aux.TradeKills, TradedDeaths |-> aux.TradedDeaths,
     SavedTeammate |-> aux.SavedTeammate, UtilityDamage |-> aux.UtilityDamage,
     FlashAssists |-> aux.FlashAssists,
     EnemyFlashDuration |-> aux.EnemyFlashDuration,
     AWPDeathsNoKill |-> aux.AWPDeathsNoKill, base |-> base]

\* The two files that define the composer: rating.go and the linear variant
Variants == {"rating.go", "linear"}

\* The result of a call not made yet
NoResult == [early |-> FALSE, rating |-> 0, c |-> NoComponents, l |-> NoContribs]

NoCall == [op |-> "New", id |-> 0, side |-> "", ret |-> <<>>, before |-> <<>>]

RatingIdle == [kind |-> "idle"]

Init ==
    /\ at = NewAdvantageTracker
    /\ last = NoCall
    /\ killCalls = [l \in Ledgers |-> 0]
    /\ dead = {}
    /\ rin = RatingIdle
    /\ rout = RatingIdle

\* last.before of a Reset: the slots of both ledgers it discards
Reset ==
    /\ at' = ResetSlots
    /\ last' = [op |-> "Reset", id |-> 0, side |-> "", ret |-> <<>>,
                before |-> at.tSlots \o at.ctSlots]
    /\ killCalls' = [l \in Ledgers |-> 0]
    /\ UNCHANGED <<dead, rin, rout>>

\* last.before of a RecordKill or RecordDeath: the ledger of the call's side
\* as the call found it
RecordKill(killerID, killerSide) ==
    /\ killCalls[LedgerOf(killerSide)] < MaxKills
    /\ at' = RecordKillSlots(at, killerID, killerSide)
    /\ last' = [op |-> "RecordKill", id |-> killerID, side |-> killerSide,
                ret |-> survivalBeneficiariesOf(at, killerID, killerSide),
                before |-> IF killerSide = TeamTerrorists
                               THEN at.tSlots ELSE at.ctSlots]
    /\ killCalls' = [killCalls EXCEPT ![LedgerOf(killerSide)] = @ + 1]
    /\ dead' = dead \ {<<killerID, LedgerOf(killerSide)>>}
    /\ UNCHANGED <<rin, rout>>

\* RecordDeath without the test len(slots) > 0: slots[1:] of an empty slice
\* panics, and the call does not return
RecordDeathUnguarded(victimID, victimSide) ==
    /\ IF getSlots(at, victimSide) = <<>>
           THEN /\ at' = at
                /\ last' = [op |-> "panic", id |-> victimID, side |-> victimSide,
                            ret |-> <<>>, before |-> <<>>]
           ELSE /\ at' = RecordDeathSlots(at, victimID, victimSide)
                /\ last' = [op |-> "RecordDeath", id |-> victimID,
                            side |-> victimSide, ret |-> <<>>,
                            before |-> getSlots(at, victimSide)]
    /\ dead' = dead \cup {<<victimID, LedgerOf(victimSide)>>}
    /\ UNCHANGED <<killCalls, rin, rout>>

RecordDeath(victimID, victimSide) ==
    /\ at' = RecordDeathSlots(at, victimID, victimSide)
    /\ last' = [op |-> "RecordDeath", id |-> victimID, side |-> victimSide,
                ret |-> <<>>,
                before |-> IF victimSide = TeamTerrorists
                               THEN at.tSlots ELSE at.ctSlots]
    /\ dead' = dead \cup {<<victimID, LedgerOf(victimSide)>>}
    /\ UNCHANGED <<killCalls, rin, rout>>

\* The handler of a kill event given a kill that ends the round: RecordKill,
\* which has no parameter for it, is not called, and no slot is created
RoundEndingKill(killerID, killerSide) ==
    /\ last' = [op |-> "RoundEndingKill", id |-> killerID, side |-> killerSide,
                ret |-> <<>>,
                before |-> IF killerSide = TeamTerrorists
                               THEN at.tSlots ELSE at.ctSlots]
    /\ dead' = dead \ {<<killerID, LedgerOf(killerSide)>>}
    /\ UNCHANGED <<at, killCalls, rin, rout>>

Next ==
    \/ Reset
    \/ \E killerID \in PlayerIDs, killerSide \in Sides :
          RecordKill(killerID, killerSide)
    \/ \E victimID \in PlayerIDs, victimSide \in Sides :
          RecordDeath(victimID, victimSide)
    \/ \E killerID \in PlayerIDs, killerSide \in Sides :
          RoundEndingKill(killerID, killerSide)

Spec == Init /\ [][Next]_vars

----------------------------------------------------------------------------
(* The tracker called with any value of common.Team as the side *)

\* RecordKill calls per ledger between two Resets when any side is passed
MaxKillsAnySide == 2

\* The players of the calls with any side
AnySidePlayerIDs == {1, 2}

AnySideNext ==
    \/ Reset
    \/ \E killerID \in AnySidePlayerIDs, killerSide \in Teams :
          /\ killCalls[LedgerOf(killerSide)] < MaxKillsAnySide
          /\ RecordKill(killerID, killerSide)
    \/ \E victimID \in AnySidePlayerIDs, victimSide \in Teams :
          RecordDeath(victimID, victimSide)

AnySideSpec == Init /\ [][AnySideNext]_vars

----------------------------------------------------------------------------
(* Finalising one player's statistics: the derived rates, the final rating *)
(* and the rating of a side given the player's totals as that side's stats *)

\* rin.variant: the file the composer is built from; rin.p: the player;
\* rin.kast: the count of KAST rounds ComputeSideRating is given
RatingInputs ==
    { [variant |-> v,
       p |-> PlayerStats(rounds, kd, damage, ecoKillValue, roundSwing, kast,
                         multiKills, clutch, aux, base),
       kast |-> Float(kastRounds)] :
        v \in Variants, rounds \in 0..MaxRounds, kd \in KillDeathProfiles,
        damage \in DamageValues, ecoKillValue \in EcoKillValues,
        roundSwing \in RoundSwingValues, kast \in KASTValues,
        multiKills \in MultiKillProfiles, clutch \in ClutchProfiles,
        aux \in AuxProfiles, base \in BaselineChoices,
        kastRounds \in 0..MaxRounds }

RatingInit ==
    /\ at = NewAdvantageTracker
    /\ last = NoCall
    /\ killCalls = [l \in Ledgers |-> 0]
    /\ dead = {}
    /\ rin \in { i \in RatingInputs : i.kast <= Float(i.p.RoundsPlayed) }
    /\ rout = [pc |-> "folded", rates |-> ZeroRates,
               final |-> NoResult, side |-> NoResult]

DeriveStats ==
    /\ rout.pc = "folded"
    /\ rout' = [rout EXCEPT !.pc = "derived",
                            !.rates = computeDerivedStats(rin.p, rout.rates)]
    /\ UNCHANGED <<trackerVars, rin>>

RateFinal ==
    /\ rout.pc = "derived"
    /\ rout' = [rout EXCEPT !.pc = "rated",
                            !.final = IF rin.variant = "rating.go"
                                          THEN ComputeFinalRating(rin.p)
                                          ELSE LinearComputeFinalRating(rin.p)]
    /\ UNCHANGED <<trackerVars, rin>>

RateSide ==
    /\ rout.pc = "rated"
    /\ LET p == rin.p
       IN  rout' = [rout EXCEPT
               !.pc = "sided",
               !.side = IF rin.variant = "rating.go"
                   THEN ComputeSideRating(p.RoundsPlayed, p.Kills, p.Deaths,
                            p.Damage, p.EcoKillValue, p.RoundSwing, rin.kast,
                            p.MultiKills, p.ClutchRounds, p.ClutchWins, p.base)
                   ELSE LinearComputeSideRating(p.RoundsPlayed, p.Kills, p.Deaths,
                            p.Damage, p.EcoKillValue, p.RoundSwing, rin.kast,
                            p.MultiKillsRaw, p.ClutchRounds, p.ClutchWins)]
    /\ UNCHANGED <<trackerVars, rin>>

RatingNext == DeriveStats \/ RateFinal \/ RateSide

RatingSpec == RatingInit /\ [][RatingNext]_vars

----------------------------------------------------------------------------
(* Properties of the AdvantageTracker *)

Owners(slots) == {slots[i].PlayerID : i \in DOMAIN slots}

Range(seq) == {seq[i] : i \in DOMAIN seq}

SlotsOf(slots, playerID) == {i \in DOMAIN slots : slots[i].PlayerID = playerID}

\* The index of the oldest slot of playerID in slots (0 when it holds none)
FirstIndex(slots, playerID) ==
    IF SlotsOf(slots, playerID) = {} THEN 0
    ELSE CHOOSE i \in SlotsOf(slots, playerID) :
             \A j \in SlotsOf(slots, playerID) : i <= j

Opposing(side) ==
    IF side = TeamTerrorists THEN TeamCounterTerrorists ELSE TeamTerrorists

\* The ledger of the last call's side, now
LedgerNow == IF last.side = TeamTerrorists THEN at.tSlots ELSE at.ctSlots

\* C1: RecordKill(killerId, side) returns exactly the ids that hold a slot on
\* the killer's side before the call, the killer excluded, and the killer's
\* new slot is appended to the ledger those ids were collected from.
C1_BeneficiariesAreOtherHolders ==
    last.op = "RecordKill" =>
        /\ Range(last.ret) = Owners(last.before) \ {last.id}
        /\ last.id \notin Range(last.ret)
        /\ LedgerNow = Append(last.before, AdvantageSlot(last.id, last.side))

\* A kill by a player that already held a slot, with another holder credited
C1_Witness ==
    /\ last.op = "RecordKill"
    /\ last.id \in Owners(last.before)
    /\ Len(last.ret) >= 1

\* C2: the list RecordKill returns holds each id once, in the order of the
\* ids' oldest slots on that side; with the ledger <<A, B>> a kill by C
\* returns <<A, B>>.
C2_BeneficiariesInCreationOrder ==
    last.op = "RecordKill" =>
        /\ \A i, j \in DOMAIN last.ret :
              i < j => /\ last.ret[i] # last.ret[j]
                       /\ FirstIndex(last.before, last.ret[i])
                              < FirstIndex(last.before, last.ret[j])
        /\ \A i \in DOMAIN last.ret : FirstIndex(last.before, last.ret[i]) > 0
        /\ (/\ Len(last.before) = 2
            /\ last.before[1].PlayerID # last.before[2].PlayerID
            /\ last.id \notin Owners(last.before))
           => last.ret = <<last.before[1].PlayerID, last.before[2].PlayerID>>

\* RecordKill(C) after RecordKill(A), RecordKill(B) on one side: <<A, B>>
C2_Witness ==
    /\ last.op = "RecordKill"
    /\ Len(last.before) = 2
    /\ last.before[1].PlayerID # last.before[2].PlayerID
    /\ last.id \notin Owners(last.before)
    /\ last.ret = <<last.before[1].PlayerID, last.before[2].PlayerID>>

\* C3: RecordDeath(victimId, victimSide) leaves on the victim's side the
\* previous ledger without its head (when it had one) and without every
\* remaining slot of the victim, the other slots kept in their order.
C3_DeathRemovesHeadThenVictimSlots ==
    last.op = "RecordDeath" =>
        LedgerNow =
            SelectSeq(IF last.before = <<>> THEN <<>> ELSE Tail(last.before),
                      LAMBDA slot : slot.PlayerID # last.id)

\* A death that removed a teammate's head slot and a later slot of the victim
\* and kept a third slot
C3_Witness ==
    /\ last.op = "RecordDeath"
    /\ Len(last.before) = 3
    /\ last.before[1].PlayerID # last.id
    /\ last.id \in Owners(Tail(last.before))
    /\ Len(LedgerNow) = 1

\* C4 as stated: with the slots of A and B on side s, the death of a player
\* of the side opposing s removes A's slot from side s and leaves B's.
C4_OpposingDeathConsumes ==
    [][(/\ last'.op = "RecordDeath"
        /\ Len(getSlots(at, Opposing(last'.side))) = 2)
       => getSlots(at', Opposing(last'.side))
              = Tail(getSlots(at, Opposing(last'.side)))]_vars

\* C4 as amended: the death of a player of side s consumes the oldest slot of
\* side s and, the victim holding none of the others, only that one; the
\* ledger of the opposing side is left as it was.
C4_OwnSideDeathConsumesOldest ==
    [][last'.op = "RecordDeath" =>
        /\ getSlots(at', Opposing(last'.side)) = getSlots(at, Opposing(last'.side))
        /\ (/\ getSlots(at, last'.side) # <<>>
            /\ last'.id \notin Owners(Tail(getSlots(at, last'.side))))
           => getSlots(at', last'.side) = Tail(getSlots(at, last'.side))]_vars

\* The slots of A and B on one side, a death on that side: B's slot is left,
\* and the two slots of the other side are still there
C4_Witness ==
    /\ last.op = "RecordDeath"
    /\ Len(last.before) = 2
    /\ last.before[1].PlayerID # last.before[2].PlayerID
    /\ LedgerNow = <<last.before[2]>>
    /\ Len(getSlots(at, Opposing(last.side))) = 2

\* C5: right after RecordDeath(A, s) the ledger of side s holds no slot of A.
C5_VictimHoldsNoSlot ==
    last.op = "RecordDeath" => last.id \notin Owners(LedgerNow)

\* The victim held two slots behind the head
C5_Witness ==
    /\ last.op = "RecordDeath"
    /\ Len(last.before) = 3
    /\ last.before[1].PlayerID # last.id
    /\ last.before[2].PlayerID = last.id
    /\ last.before[3].PlayerID = last.id
    /\ LedgerNow = <<>>

\* C6: from RecordDeath(v, s) until the next RecordKill(v, s) no RecordKill on
\* side s returns v, and v holds no slot on side s.
C6_DeadEarnNoCredit ==
    [][/\ \A d \in dead' : d[1] \notin Owners(at'[d[2]])
       /\ last'.op = "RecordKill" =>
              \A v \in Range(last'.ret) : <<v, LedgerOf(last'.side)>> \notin dead]_vars

\* A kill that credits a teammate while another player of that side, who died
\* holding a slot after the credited slot was created, is not credited
C6_Witness ==
    /\ last.op = "RecordKill"
    /\ Len(last.ret) >= 1
    /\ \E v \in PlayerIDs :
          /\ <<v, LedgerOf(last.side)>> \in dead
          /\ v # last.id
    /\ killCalls[LedgerOf(last.side)] = 3

\* C7: after Reset both ledgers are empty, and the first RecordKill on a side
\* after it returns no beneficiary.
C7_ResetClearsBothSides ==
    /\ last.op = "Reset" => at.tSlots = <<>> /\ at.ctSlots = <<>>
    /\ (last.op = "RecordKill" /\ killCalls[LedgerOf(last.side)] = 1) => last.ret = <<>>
    /\ \A l \in Ledgers : Len(at[l]) <= killCalls[l]

\* A Reset that discarded slots of both sides
C7_Witness ==
    /\ last.op = "Reset"
    /\ \E i, j \in DOMAIN last.before :
          /\ last.before[i].Side = TeamTerrorists
          /\ last.before[j].Side = TeamCounterTerrorists
    /\ at = NewAdvantageTracker

----------------------------------------------------------------------------
(* The KAST rating of two players of 20 rounds who differ in KAST only: rin *)
(* holds the KAST rounds of both, rout the KAST ratings ComputeFinalRating  *)
(* and ComputeSideRating compute for them                                   *)

KASTInit ==
    /\ at = NewAdvantageTracker
    /\ last = NoCall
    /\ killCalls = [l \in Ledgers |-> 0]
    /\ dead = {}
    /\ rin \in { i \in [rounds : {20}, lower : 0..20, higher : 0..20] :
                    i.lower < i.higher }
    /\ rout = [pc |-> "folded"]

\* p.KAST of a player with kastRounds KAST rounds out of rounds
KASTFraction(kastRounds, rounds) == FDiv(Float(kastRounds), Float(rounds))

RateKAST ==
    /\ rout.pc = "folded"
    /\ rout' = [pc |-> "rated",
                finalLower |->
                    FinalKASTRating([KAST |-> KASTFraction(rin.lower, rin.rounds)]),
                finalHigher |->
                    FinalKASTRating([KAST |-> KASTFraction(rin.higher, rin.rounds)]),
                sideLower |-> SideKASTRating(rin.rounds, Float(rin.lower)),
                sideHigher |-> SideKASTRating(rin.rounds, Float(rin.higher))]
    /\ UNCHANGED <<trackerVars, rin>>

KASTNext == RateKAST

KASTSpec == KASTInit /\ [][KASTNext]_vars

----------------------------------------------------------------------------
(* The kill, death, ADR and KAST rating of a player at or near the          *)
(* baselines: rin holds the player, rout the four ratings                   *)

NearBaselineInputs ==
    [RoundsPlayed : {25, 50}, EcoKillValue : {17000, 18000, 36000},
     Deaths : {16, 17, 34}, Damage : {1900, 1925, 2000}, KAST : {700, 720, 740}]

BaselineInit ==
    /\ at = NewAdvantageTracker
    /\ last = NoCall
    /\ killCalls = [l \in Ledgers |-> 0]
    /\ dead = {}
    /\ rin \in NearBaselineInputs
    /\ rout = [pc |-> "folded"]

RateComponents ==
    /\ rout.pc = "folded"
    /\ rout' = [pc |-> "rated",
                ecoKPR |-> FDiv(rin.EcoKillValue, Float(rin.RoundsPlayed)),
                dpr |-> FDiv(Float(rin.Deaths), Float(rin.RoundsPlayed)),
                adr |-> FDiv(Float(rin.Damage), Float(rin.RoundsPlayed)),
                killRating |-> FinalKillRating(rin),
                deathRating |-> FinalDeathRating(rin),
                adrRating |-> FinalADRRating(rin),
                kastRating |-> FinalKASTRating(rin)]
    /\ UNCHANGED <<trackerVars, rin>>

BaselineNext == RateComponents

BaselineSpec == BaselineInit /\ [][BaselineNext]_vars

----------------------------------------------------------------------------
(* Two kills of different tiers valued by the multiplier tables: rin holds  *)
(* the tiers, rout the multipliers credited to the killers and charged to   *)
(* the victims                                                              *)

EcoInit ==
    /\ at = NewAdvantageTracker
    /\ last = NoCall
    /\ killCalls = [l \in Ledgers |-> 0]
    /\ dead = {}
    /\ rin \in [tier1 : DOMAIN EcoKillTiers, tier2 : DOMAIN EcoKillTiers]
    /\ rout = [pc |-> "kills"]

ValueKills ==
    /\ rout.pc = "kills"
    /\ rout' = [pc |-> "valued",
                kill1 |-> EcoKillTiers[rin.tier1], kill2 |-> EcoKillTiers[rin.tier2],
                death1 |-> EcoDeathTiers[rin.tier1],
                death2 |-> EcoDeathTiers[rin.tier2]]
    /\ UNCHANGED <<trackerVars, rin>>

EcoNext == ValueKills

EcoSpec == EcoInit /\ [][EcoNext]_vars

RECURSIVE IsSubSeq(_, _)
IsSubSeq(s, t) ==
    IF s = <<>> THEN TRUE
    ELSE IF t = <<>> THEN FALSE
    ELSE IF Head(s) = Head(t) THEN IsSubSeq(Tail(s), Tail(t))
    ELSE IsSubSeq(s, Tail(t))

\* C13: every ledger stays in creation order: a step either appends one slot
\* at its tail, which only a RecordKill does and then with the killer as
\* owner and the killer's side as Side, every older slot staying in place, or
\* it leaves slots of the ledger in the order they had, deleting the others;
\* a RecordDeath only deletes.
C13_LedgersStayInCreationOrder ==
    [][\A l \in Ledgers :
          \/ /\ last'.op = "RecordKill"
             /\ l = LedgerOf(last'.side)
             /\ Len(at'[l]) = Len(at[l]) + 1
             /\ SubSeq(at'[l], 1, Len(at[l])) = at[l]
             /\ at'[l][Len(at'[l])].PlayerID = last'.id
             /\ at'[l][Len(at'[l])].Side = last'.side
          \/ /\ last'.op # "RecordKill" \/ l # LedgerOf(last'.side)
             /\ Len(at'[l]) <= Len(at[l])
             /\ IsSubSeq(at'[l], at[l])]_vars

\* A kill recorded after a death on the side: the slot is appended behind
\* the slot of another player that survived the death
C13_Witness ==
    /\ last.op = "RecordKill"
    /\ Len(last.before) = 1
    /\ last.before[1].PlayerID # last.id
    /\ LedgerNow = <<last.before[1], AdvantageSlot(last.id, last.side)>>
    /\ \E v \in PlayerIDs : <<v, LedgerOf(last.side)>> \in dead

\* C14: RecordKill(_, s) and RecordDeath(_, s) leave the ledger of the other
\* side as it was, slots and order: a death on s removes no slot the victim
\* holds on the other side, and a kill on s returns only holders of slots on s.
C14_OtherSideUntouched ==
    [][last'.op \in {"RecordKill", "RecordDeath"} =>
        /\ getSlots(at', Opposing(last'.side)) = getSlots(at, Opposing(last'.side))
        /\ Range(last'.ret) \subseteq Owners(getSlots(at, last'.side))
        /\ \A id \in Owners(getSlots(at, Opposing(last'.side))) :
              id \notin Owners(getSlots(at, last'.side)) => id \notin Range(last'.ret)
       ]_vars

\* A victim that held slots on both sides died on one: the slots of that
\* side are gone and the slot on the other side is still there
C14_Witness ==
    /\ last.op = "RecordDeath"
    /\ last.id \in Owners(last.before)
    /\ last.id \notin Owners(LedgerNow)
    /\ last.id \in Owners(getSlots(at, Opposing(last.side)))
    /\ Len(getSlots(at, Opposing(last.side))) = 2

\* C15: RecordDeath never faults, and on a side without slots it is a no-op:
\* no call panics, and a RecordDeath that finds the ledger of the victim's
\* side empty leaves both ledgers as they were, whoever the victim is.
C15_DeathOnEmptyLedgerIsNoOp ==
    [][/\ last'.op # "panic"
       /\ (last'.op = "RecordDeath" /\ getSlots(at, last'.side) = <<>>) =>
             /\ at' = at
             /\ getSlots(at', last'.side) = <<>>]_vars

\* A death on a side that had no slot, the other side holding two: the
\* call returned, the side is still empty and the other side holds its two
C15_Witness ==
    /\ last.op = "RecordDeath"
    /\ last.before = <<>>
    /\ LedgerNow = <<>>
    /\ Len(getSlots(at, Opposing(last.side))) = 2

\* The number of slots in slots that playerID does not own
SlotsOfOthers(slots, playerID) ==
    Cardinality({i \in DOMAIN slots : slots[i].PlayerID # playerID})

\* C16: RecordDeath removes at most one slot the victim does not own, and
\* then the head of the victim's side ledger; when the oldest slot on that
\* side is the victim's, only the victim's slots go and every slot of a
\* teammate survives, in place.
C16_AtMostHeadOfOthersRemoved ==
    last.op = "RecordDeath" =>
        LET removed == SlotsOfOthers(last.before, last.id)
                           - SlotsOfOthers(LedgerNow, last.id)
        IN  /\ removed \in {0, 1}
            /\ removed = 1 =>
                  /\ last.before[1].PlayerID # last.id
                  /\ SlotsOfOthers(Tail(last.before), last.id)
                         = SlotsOfOthers(LedgerNow, last.id)
            /\ (last.before # <<>> /\ last.before[1].PlayerID = last.id) =>
                  /\ removed = 0
                  /\ LedgerNow = SelectSeq(last.before,
                                           LAMBDA slot : slot.PlayerID # last.id)

\* The victim held the oldest of three slots, two teammates the others: both
\* teammates' slots are left
C16_Witness ==
    /\ last.op = "RecordDeath"
    /\ Len(last.before) = 3
    /\ last.before[1].PlayerID = last.id
    /\ last.before[2].PlayerID # last.id
    /\ last.before[3].PlayerID # last.id
    /\ LedgerNow = Tail(last.before)

\* C17: the tracker has two ledgers, and a call with a side other than
\* Terrorists works on the CT ledger: it leaves the T ledger alone, a
\* RecordKill appends its slot, Side as passed, to the CT ledger, a RecordDeath
\* drops the head of the CT ledger and the victim's slots in it; every slot
\* of the T ledger has Side = Terrorists.
C17_OtherSidesUseCTLedger ==
    [][/\ DOMAIN at' = {"tSlots", "ctSlots"}
       /\ \A i \in DOMAIN at'.tSlots : at'.tSlots[i].Side = TeamTerrorists
       /\ (last'.op \in {"RecordKill", "RecordDeath"}
              /\ last'.side # TeamTerrorists) =>
             /\ at'.tSlots = at.tSlots
             /\ last'.op = "RecordKill" =>
                   at'.ctSlots = Append(at.ctSlots,
                       [PlayerID |-> last'.id, Side |-> last'.side])
             /\ last'.op = "RecordDeath" =>
                   at'.ctSlots =
                       SelectSeq(IF at.ctSlots = <<>> THEN <<>> ELSE Tail(at.ctSlots),
                                 LAMBDA slot : slot.PlayerID # last'.id)]_vars

\* The death of a spectator removed a Counter-Terrorist's slot from the head
\* of the CT ledger and left there the slot of an unassigned player
C17_Witness ==
    /\ last.op = "RecordDeath"
    /\ last.side = TeamSpectators
    /\ Len(last.before) = 2
    /\ last.before[1].Side = TeamCounterTerrorists
    /\ at.ctSlots = <<[PlayerID |-> last.before[2].PlayerID,
                       Side |-> TeamUnassigned]>>
    /\ at.tSlots # <<>>

\* C18: a side never holds more slots than RecordKill was called for it
\* since the last Reset (or construction), and a RecordDeath on a side that
\* holds at least one slot leaves it with strictly fewer slots.
C18_SlotCountBoundedAndDecreasing ==
    /\ \A side \in Sides : Len(getSlots(at, side)) <= killCalls[LedgerOf(side)]
    /\ (last.op = "RecordDeath" /\ Len(last.before) >= 1) =>
          Len(LedgerNow) < Len(last.before)
    /\ (last.op = "RecordKill") =>
          Len(LedgerNow) = Len(last.before) + 1

\* Three kills were recorded for a side since the Reset and a death took
\* its three slots at once, the head and the two of the victim
C18_Witness ==
    /\ last.op = "RecordDeath"
    /\ killCalls[LedgerOf(last.side)] = 3
    /\ Len(last.before) = 3
    /\ last.before[1].PlayerID # last.id
    /\ LedgerNow = <<>>
    /\ \E side \in Sides : side # last.side /\ killCalls[LedgerOf(side)] = 0

----------------------------------------------------------------------------
(* Properties of the rating composer, checked under RatingSpec *)

FinalRated == rout.pc \in {"rated", "sided"}

SideRated == rout.pc = "sided"

WithinRatingBounds(r) == ~IsNaN(r) /\ MinRating <= r /\ r <= MaxRating

\* C8: every rating ComputeFinalRating or ComputeSideRating returns lies in
\* [MinRating, MaxRating] = [0.20, 3.00], whatever the input.
C8_RatingWithinBounds ==
    /\ FinalRated => WithinRatingBounds(rout.final.rating)
    /\ SideRated => WithinRatingBounds(rout.side.rating)

\* C9: with zero rounds played ComputeFinalRating and ComputeSideRating return
\* exactly 0 at their first test, before any division, whatever the other
\* fields are, and every derived per-round rate of the player is 0.
C9_ZeroRoundsYieldZero ==
    rin.p.RoundsPlayed = 0 =>
        /\ rout.pc # "folded" =>
              rout.rates.ADR = 0 /\ rout.rates.KPR = 0 /\ rout.rates.DPR = 0
        /\ FinalRated => rout.final.early /\ rout.final.rating = 0
        /\ SideRated => rout.side.early /\ rout.side.rating = 0

\* A player with no rounds but damage, deaths and eco kill value has been
\* rated 0 by both entry points
C9_Witness ==
    /\ SideRated
    /\ rin.p.RoundsPlayed = 0
    /\ rin.p.Damage > 0 /\ rin.p.Deaths > 0 /\ rin.p.EcoKillValue # 0
    /\ rin.p.ClutchRounds > 0 /\ rin.p.AWPDeathsNoKill > 0
    /\ rout.final.rating = 0 /\ rout.side.rating = 0
    /\ rout.rates = ZeroRates

\* Both entry points have computed their components from equal inputs: the
\* side call got the player's totals and a KAST count whose fraction of the
\* rounds is the player's KAST
EqualInputsRated ==
    /\ SideRated
    /\ ~rout.side.early
    /\ FDiv(rin.kast, Float(rin.p.RoundsPlayed)) = rin.p.KAST

SideComponentsAgree ==
    /\ rout.side.c.killRating = rout.final.c.killRating
    /\ rout.side.c.deathRating = rout.final.c.deathRating
    /\ rout.side.c.adrRating = rout.final.c.adrRating
    /\ rout.side.c.swingRating = rout.final.c.swingRating
    /\ rout.side.c.multiKillRating = rout.final.c.multiKillRating
    /\ rout.side.c.kastRating = rout.final.c.kastRating
    /\ rout.side.c.clutchModifier = rout.final.c.clutchModifier

NeutralExtras ==
    /\ rout.final.c.openingRating = Scale
    /\ rout.final.c.tradeRating = Scale
    /\ rout.final.c.utilityRating = Scale
    /\ rout.final.c.awpPenalty = 0

----------------------------------------------------------------------------
(* Properties of the multiplier tables, checked under EcoSpec *)

\* C11: the kill multipliers are strictly ordered by tier, pistol-vs-rifle
\* (1.80) > equal (1.00) > rifle-vs-pistol (0.70) with every tier strictly
\* between its neighbours, and the death multipliers are ordered tier by tier
\* alongside: dying to a cheaper loadout costs more than dying to an equal
\* one, which costs more than dying to a stronger one, and a tier is above,
\* at or below 1.00 in both tables alike.
C11_TierTablesStrictlyOrdered ==
    rout.pc = "valued" =>
        /\ rin.tier1 < rin.tier2 =>
              rout.kill1 > rout.kill2 /\ rout.death1 > rout.death2
        /\ rin.tier1 = 1 => rout.kill1 = 1800
        /\ rin.tier1 = Len(EcoKillTiers) => rout.kill1 = 700
        /\ rin.tier1 = EqualTier => rout.kill1 = Scale /\ rout.death1 = Scale
        /\ rin.tier1 < EqualTier => rout.kill1 > Scale /\ rout.death1 > Scale
        /\ rin.tier1 > EqualTier => rout.kill1 < Scale /\ rout.death1 < Scale

\* The tiers of equal and of slightly better equipment have been valued
C11_Witness ==
    /\ rout.pc = "valued"
    /\ rin.tier1 = EqualTier /\ rin.tier2 = EqualTier + 1
    /\ rout.kill1 = EcoKillEqual /\ rout.kill2 = EcoKillSlightAdvantage
    /\ rout.death1 = EcoDeathEqual /\ rout.death2 = EcoDeathSlightDisadvantage

----------------------------------------------------------------------------
(* Properties of single components, checked under KASTSpec and BaselineSpec *)

\* C19: the KAST rating is non-decreasing in KAST: of two players who differ
\* only in KAST the one with the higher KAST gets no lower KAST rating, in
\* ComputeFinalRating and in ComputeSideRating.
C19_KASTRatingNonDecreasing ==
    rout.pc = "rated" =>
        /\ rout.finalLower <= rout.finalHigher
        /\ rout.sideLower <= rout.sideHigher

\* C20: a player whose eco-KPR, DPR, ADR and KAST equal their baselines gets
\* a kill, death, ADR and KAST rating of exactly 1.0 each.
C20_BaselinePerformanceRatesOne ==
    (/\ rout.pc = "rated"
     /\ rout.ecoKPR = BaselineKPR
     /\ rout.dpr = BaselineDPR
     /\ rout.adr = BaselineADR
     /\ rin.KAST = BaselineKAST) =>
        /\ rout.killRating = Scale
        /\ rout.deathRating = Scale
        /\ rout.adrRating = Scale
        /\ rout.kastRating = Scale

====
